---- MODULE Spec2Model ----
(***************************************************************************)
(* GPU upgrade advisor: the recommendation endpoint POST /api/recommend    *)
(* (src/app/api/recommend/route.ts) and the pure functions it is built on. *)
(*                                                                         *)
(* Strings the code inspects character by character (currentGpu, games)    *)
(* are sequences of one-character strings; enum-like strings (formFactor,  *)
(* resolution, catalog ids) are plain strings.                             *)
(*                                                                         *)
(* The multipliers are decimal fractions in the code.  They are kept exact *)
(* here: resolutionMultiplier in fifths, game weights in twentieths,       *)
(* cpuBottleneckFactor in twenty-fifths, so effectivePerf is an integer    *)
(* number of 1/2500ths.  The one place where binary64 rounding changes a   *)
(* comparison the code makes is modelled by RoundsAbove.                   *)
(***************************************************************************)
EXTENDS Integers, Sequences, FiniteSets, TLC

VARIABLES req, resp, locals, pc, arg, out

vars == <<req, resp, locals, pc, arg, out>>

None == [kind |-> "none"]

(***************************************************************************)
(* String helpers: String.prototype.toLowerCase, includes, trim, split.    *)
(***************************************************************************)
UpperToLower ==
    [c \in {"A","B","C","D","E","F","G","H","I","J","K","L","M",
            "N","O","P","Q","R","S","T","U","V","W","X","Y","Z"} |->
        CASE c = "A" -> "a" [] c = "B" -> "b" [] c = "C" -> "c" [] c = "D" -> "d"
          [] c = "E" -> "e" [] c = "F" -> "f" [] c = "G" -> "g" [] c = "H" -> "h"
          [] c = "I" -> "i" [] c = "J" -> "j" [] c = "K" -> "k" [] c = "L" -> "l"
          [] c = "M" -> "m" [] c = "N" -> "n" [] c = "O" -> "o" [] c = "P" -> "p"
          [] c = "Q" -> "q" [] c = "R" -> "r" [] c = "S" -> "s" [] c = "T" -> "t"
          [] c = "U" -> "u" [] c = "V" -> "v" [] c = "W" -> "w" [] c = "X" -> "x"
          [] c = "Y" -> "y" [] c = "Z" -> "z"]

toLowerCase(s) ==
    [i \in 1..Len(s) |-> IF s[i] \in DOMAIN UpperToLower THEN UpperToLower[s[i]] ELSE s[i]]

\* s.includes(sub): sub occurs in s as a contiguous run of characters
includes(s, sub) ==
    \E i \in 0..(Len(s) - Len(sub)) : SubSeq(s, i + 1, i + Len(sub)) = sub

RECURSIVE Flatten(_)
Flatten(parts) ==
    IF parts = <<>> THEN <<>> ELSE Head(parts) \o Flatten(Tail(parts))

(***************************************************************************)
(* estimateCurrentPerf (route.ts 75-96).  form.vramGb is optional:         *)
(* (form.vramGb || 0) is 0 when the field is undefined.                    *)
(***************************************************************************)
OrZero(form, field) == IF field \in form.has THEN form[field] ELSE 0

S1050 == <<"1", "0", "5", "0">>
Srx570 == <<"r", "x", " ", "5", "7", "0">>
S1060 == <<"1", "0", "6", "0">>
S1660 == <<"1", "6", "6", "0">>
Srx580 == <<"r", "x", " ", "5", "8", "0">>
S2060 == <<"2", "0", "6", "0">>
S2070 == <<"2", "0", "7", "0">>
Srx5600 == <<"r", "x", " ", "5", "6", "0", "0">>
S3060 == <<"3", "0", "6", "0">>
S6700 == <<"6", "7", "0", "0">>
S3070 == <<"3", "0", "7", "0">>
S6800 == <<"6", "8", "0", "0">>
S4060 == <<"4", "0", "6", "0">>
S4070 == <<"4", "0", "7", "0">>

vramTier(form) ==
    IF OrZero(form, "vramGb") >= 12 THEN 100
    ELSE IF OrZero(form, "vramGb") >= 8 THEN 70
    ELSE IF OrZero(form, "vramGb") >= 6 THEN 55
    ELSE 35

\* a plausible slip: the 4060 rule tested before the older cards
estimateCurrentPerf_newestFirst(form) ==
    LET name == toLowerCase(form.currentGpu) IN
    IF name = <<>> THEN vramTier(form)
    ELSE IF includes(name, S4060) THEN 100
    ELSE IF includes(name, S4070) THEN 145
    ELSE IF includes(name, S1050) \/ includes(name, Srx570) THEN 40
    ELSE IF includes(name, S1060) \/ includes(name, S1660) \/ includes(name, Srx580) THEN 55
    ELSE IF includes(name, S2060) \/ includes(name, S2070) \/ includes(name, Srx5600) THEN 75
    ELSE IF includes(name, S3060) \/ includes(name, S6700) THEN 90
    ELSE IF includes(name, S3070) \/ includes(name, S6800) THEN 110
    ELSE vramTier(form)

estimateCurrentPerf(form) ==
    LET name == toLowerCase(form.currentGpu) IN
    IF name = <<>> THEN vramTier(form)
    ELSE IF includes(name, S1050) \/ includes(name, Srx570) THEN 40
    ELSE IF includes(name, S1060) \/ includes(name, S1660) \/ includes(name, Srx580) THEN 55
    ELSE IF includes(name, S2060) \/ includes(name, S2070) \/ includes(name, Srx5600) THEN 75
    ELSE IF includes(name, S3060) \/ includes(name, S6700) THEN 90
    ELSE IF includes(name, S3070) \/ includes(name, S6800) THEN 110
    ELSE IF includes(name, S4060) THEN 100
    ELSE IF includes(name, S4070) THEN 145
    ELSE vramTier(form)

(***************************************************************************)
(* Specification SpecPerf: estimateCurrentPerf applied to bounded inputs.  *)
(* A name is the concatenation of up to MaxParts parts.                    *)
(***************************************************************************)
MaxParts == 2

NameParts ==
    { S1050, Srx570, S1060, S1660, Srx580, S2060, S2070, Srx5600, S3060, S6700,
      S3070, S6800, S4060, S4070,
      <<"G", "T", "X", " ">>, <<"R", "X", " ", "5", "7", "0">>, <<" ", "T", "i">> }

SeqsUpTo(S, n) == UNION { [1..k -> S] : k \in 0..n }

PerfNames == { Flatten(ps) : ps \in SeqsUpTo(NameParts, MaxParts) }

VramChoices == {0, 5, 6, 7, 8, 11, 12, 16}

PerfForms ==
    { [has |-> {"currentGpu", "vramGb"}, currentGpu |-> n, vramGb |-> v] :
        n \in PerfNames, v \in VramChoices }
    \cup { [has |-> {"currentGpu"}, currentGpu |-> n, vramGb |-> 0] : n \in PerfNames }

InitPerf ==
    /\ pc = "call"
    /\ arg \in PerfForms
    /\ out = None
    /\ req = None /\ resp = None /\ locals = None

CallEstimate ==
    /\ pc = "call"
    /\ out' = [kind |-> "perf", value |-> estimateCurrentPerf(arg)]
    /\ pc' = "return"
    /\ UNCHANGED <<req, resp, locals, arg>>

NextPerf == CallEstimate

SpecPerf == InitPerf /\ [][NextPerf]_vars

(***************************************************************************)
(* parseGames (route.ts 66-73): lowercase, split on runs of , ; newline,   *)
(* trim every piece, drop the empty ones.                                  *)
(***************************************************************************)
IsSeparator(c) == c \in {",", ";", "\n"}

IsWhitespace(c) == c \in {" ", "\t", "\r", "\n"}

\* String.prototype.split(/[,;\n]+/): a run of separators is one delimiter
RECURSIVE SplitFrom(_, _, _)
SplitFrom(s, cur, prevSep) ==
    IF s = <<>> THEN <<cur>>
    ELSE IF IsSeparator(Head(s))
         THEN IF prevSep THEN SplitFrom(Tail(s), <<>>, TRUE)
              ELSE <<cur>> \o SplitFrom(Tail(s), <<>>, TRUE)
         ELSE SplitFrom(Tail(s), Append(cur, Head(s)), FALSE)

split(s) == SplitFrom(s, <<>>, FALSE)

RECURSIVE trimStart(_)
trimStart(s) ==
    IF s # <<>> /\ IsWhitespace(Head(s)) THEN trimStart(Tail(s)) ELSE s

RECURSIVE trimEnd(_)
trimEnd(s) ==
    IF s # <<>> /\ IsWhitespace(s[Len(s)]) THEN trimEnd(SubSeq(s, 1, Len(s) - 1)) ELSE s

trim(s) == trimEnd(trimStart(s))

\* Array.prototype.filter(Boolean) on strings: the empty string is falsy
filterBoolean(ss) == SelectSeq(ss, LAMBDA x : x # <<>>)

\* text is "" when the field is undefined (POST passes data.games || "")
parseGames(text) ==
    IF text = <<>> THEN <<>>
    ELSE LET pieces == split(toLowerCase(text))
         IN filterBoolean([i \in 1..Len(pieces) |-> trim(pieces[i])])

(***************************************************************************)
(* GAME_WEIGHTS (route.ts 48-54) and the game multiplier (194-197).        *)
(* Weights are in twentieths: 22 is 1.1, 12 is 0.6, 20 is 1.0.             *)
(* GAME_WEIGHTS is a plain object, so GAME_WEIGHTS[g] for a g that names a *)
(* property inherited from Object.prototype is that property (a function   *)
(* or an object), which ?? keeps and Math.max turns into NaN.              *)
(***************************************************************************)
Num(v) == [nan |-> FALSE, v |-> v]

NaN == [nan |-> TRUE, v |-> 0]

Gcyberpunk == <<"c", "y", "b", "e", "r", "p", "u", "n", "k", " ", "2", "0", "7", "7">>
Gvalorant == <<"v", "a", "l", "o", "r", "a", "n", "t">>
Gfortnite == <<"f", "o", "r", "t", "n", "i", "t", "e">>
Gelderscrolls == <<"e", "l", "d", "e", "r", "s", "c", "r", "o", "l", "l", "s">>
Gcallofduty == <<"c", "a", "l", "l", " ", "o", "f", " ", "d", "u", "t", "y">>

InheritedNames ==
    { <<"c", "o", "n", "s", "t", "r", "u", "c", "t", "o", "r">>,
      <<"_", "_", "p", "r", "o", "t", "o", "_", "_">> }

\* Number(GAME_WEIGHTS[g] ?? 1)
GAME_WEIGHTS(g) ==
    IF g = Gcyberpunk THEN Num(22)
    ELSE IF g = Gvalorant THEN Num(12)
    ELSE IF g = Gfortnite THEN Num(14)
    ELSE IF g = Gelderscrolls THEN Num(20)
    ELSE IF g = Gcallofduty THEN Num(19)
    ELSE IF g \in InheritedNames THEN NaN
    ELSE Num(20)

\* Math.max(...xs) for a non-empty xs: NaN if any argument is NaN
MathMax(xs) ==
    IF \E i \in 1..Len(xs) : xs[i].nan THEN NaN
    ELSE Num(CHOOSE m \in {xs[i].v : i \in 1..Len(xs)} :
                \A i \in 1..Len(xs) : xs[i].v <= m)

\* a plausible slip: the least demanding game sizes the recommendation
MathMin(xs) ==
    IF \E i \in 1..Len(xs) : xs[i].nan THEN NaN
    ELSE Num(CHOOSE m \in {xs[i].v : i \in 1..Len(xs)} :
                \A i \in 1..Len(xs) : xs[i].v >= m)

gameMultiplier_min(gameList) ==
    IF Len(gameList) = 0 THEN Num(20)
    ELSE MathMin([i \in 1..Len(gameList) |-> GAME_WEIGHTS(gameList[i])])

gameMultiplier(gameList) ==
    IF Len(gameList) = 0 THEN Num(20)
    ELSE MathMax([i \in 1..Len(gameList) |-> GAME_WEIGHTS(gameList[i])])

(***************************************************************************)
(* Specification SpecGames: the game multiplier of a games text of up to   *)
(* MaxGames titles, and of the same text with one more title.              *)
(***************************************************************************)
MaxGames == 2

GameTitles ==
    { <<"V", "a", "l", "o", "r", "a", "n", "t">>,
      <<"C", "y", "b", "e", "r", "p", "u", "n", "k", " ", "2", "0", "7", "7">>,
      <<" ", "f", "o", "r", "t", "n", "i", "t", "e">>,
      <<"E", "l", "d", "e", "r", "S", "c", "r", "o", "l", "l", "s", " ">>,
      <<"C", "a", "l", "l", " ", "o", "f", " ", "D", "u", "t", "y">>,
      <<"M", "i", "n", "e", "c", "r", "a", "f", "t">>,
      <<"c", "o", "n", "s", "t", "r", "u", "c", "t", "o", "r">> }

\* the textarea content naming the titles, one after the other
RECURSIVE GamesText(_)
GamesText(titles) ==
    IF titles = <<>> THEN <<>>
    ELSE IF Len(titles) = 1 THEN Head(titles)
    ELSE Head(titles) \o <<",", " ">> \o GamesText(Tail(titles))

InitGames ==
    /\ pc = "call"
    /\ arg \in [titles : SeqsUpTo(GameTitles, MaxGames), added : GameTitles]
    /\ out = None
    /\ req = None /\ resp = None /\ locals = None

CallGameMultiplier ==
    /\ pc = "call"
    /\ LET listL == parseGames(GamesText(arg.titles))
           listMore == parseGames(GamesText(Append(arg.titles, arg.added)))
       IN out' = [kind |-> "mult",
                  gameList |-> listL,
                  gameListMore |-> listMore,
                  multiplier |-> gameMultiplier(listL),
                  multiplierMore |-> gameMultiplier(listMore)]
    /\ pc' = "return"
    /\ UNCHANGED <<req, resp, locals, arg>>

NextGames == CallGameMultiplier

SpecGames == InitGames /\ [][NextGames]_vars

(***************************************************************************)
(* GPU_OPTIONS (route.ts 13-46).  host is the hostname of productUrl.      *)
(***************************************************************************)
GPU_OPTIONS ==
    << [id |-> "rtx-4060", name |-> "NVIDIA GeForce RTX 4060", price |-> 299,
        perfScore |-> 100, formFactor |-> "desktop", host |-> "www.newegg.com",
        productUrl |-> "https://www.newegg.com/p/pl?d=rtx+4060"],
       [id |-> "rtx-4070", name |-> "NVIDIA GeForce RTX 4070", price |-> 549,
        perfScore |-> 145, formFactor |-> "desktop", host |-> "www.newegg.com",
        productUrl |-> "https://www.newegg.com/p/pl?d=rtx+4070"],
       [id |-> "rx-7800-xt", name |-> "AMD Radeon RX 7800 XT", price |-> 499,
        perfScore |-> 140, formFactor |-> "desktop", host |-> "www.newegg.com",
        productUrl |-> "https://www.newegg.com/p/pl?d=rx+7800+xt"],
       [id |-> "laptop-rtx-4060", name |-> "Laptop RTX 4060 (various OEMs)", price |-> 1299,
        perfScore |-> 110, formFactor |-> "laptop", host |-> "www.amazon.com",
        productUrl |-> "https://www.amazon.com/s?k=laptop+rtx+4060"] >>

(***************************************************************************)
(* resolutionMultiplier (98-107) in fifths, cpuBottleneckFactor (109-114)  *)
(* in twenty-fifths.  cores = 0 stands for a falsy cores (undefined or 0). *)
(***************************************************************************)
resolutionMultiplier(res) ==
    CASE res = "1080p" -> 5
      [] res = "1440p" -> 4
      [] res = "4K" -> 3

\* a plausible slip: an unknown core count treated as a weak CPU
cpuBottleneckFactor_absentIsSlow(cores) ==
    IF cores <= 4 THEN 20
    ELSE IF cores <= 6 THEN 23
    ELSE 25

cpuBottleneckFactor(cores) ==
    IF cores = 0 THEN 25
    ELSE IF cores <= 4 THEN 20
    ELSE IF cores <= 6 THEN 23
    ELSE 25

(***************************************************************************)
(* Scoring one candidate (route.ts 211-223).                               *)
(*                                                                         *)
(* effectivePerf is [nan, n, above]: n counts 1/2500ths; nan when the game *)
(* multiplier is NaN.  The binary64 product differs from the exact one by  *)
(* less than 1e-13, which can change only the comparison with currentPerf  *)
(* at exact equality.  Among the catalog scores, the multipliers and the   *)
(* estimator's scores that happens for one product: 100 * 1 * 1.1 * 1      *)
(* evaluates to 110.00000000000001, above a currentPerf of 110.  above     *)
(* records it.                                                             *)
(***************************************************************************)
Scale == 5 * 20 * 25

RoundsAbove(perfScore, resMult, gameMult, cpuFactor) ==
    perfScore = 100 /\ resMult = 5 /\ gameMult = 22 /\ cpuFactor = 25

\* g.perfScore * resMult * gameMultiplier * cpuFactor
effectivePerfOf(g, resMult, gameMult, cpuFactor) ==
    IF gameMult.nan THEN [nan |-> TRUE, n |-> 0, above |-> FALSE]
    ELSE [nan |-> FALSE,
          n |-> g.perfScore * resMult * gameMult.v * cpuFactor,
          above |-> RoundsAbove(g.perfScore, resMult, gameMult.v, cpuFactor)]

\* Math.max(effectivePerf - currentPerf, 0)
gainOf(effectivePerf, currentPerf) ==
    IF effectivePerf.nan THEN [nan |-> TRUE, n |-> 0, above |-> FALSE]
    ELSE LET d == effectivePerf.n - currentPerf * Scale IN
         IF d > 0 THEN [nan |-> FALSE, n |-> d, above |-> FALSE]
         ELSE IF d = 0 /\ effectivePerf.above THEN [nan |-> FALSE, n |-> 0, above |-> TRUE]
         ELSE [nan |-> FALSE, n |-> 0, above |-> FALSE]

\* currentPerf > 0 ? (gain / currentPerf) * 100 : 0, the fraction num / den
estFpsGainPercentOf(gain, currentPerf) ==
    IF currentPerf > 0
    THEN [nan |-> gain.nan, num |-> gain.n, den |-> 25 * currentPerf, above |-> gain.above]
    ELSE [nan |-> FALSE, num |-> 0, den |-> 1, above |-> FALSE]

\* x > 0 for a percentage; false for NaN
IsPositive(x) == ~x.nan /\ (x.num > 0 \/ x.above)

Infinity == [class |-> "inf", num |-> 0, den |-> 1]

\* a plausible slip: no gain costs nothing per point
costPerFpsPointOf_zero(price, pct) ==
    IF IsPositive(pct)
    THEN IF pct.num > 0
         THEN [class |-> "finite", num |-> price * pct.den, den |-> pct.num]
         ELSE [class |-> "huge", num |-> price, den |-> 1]
    ELSE [class |-> "finite", num |-> 0, den |-> 1]

\* estFpsGainPercent > 0 ? g.price / estFpsGainPercent : Infinity.
\* class "huge" is the price divided by a gain of rounding size: finite,
\* above every cost of class "finite".
costPerFpsPointOf(price, pct) ==
    IF IsPositive(pct)
    THEN IF pct.num > 0
         THEN [class |-> "finite", num |-> price * pct.den, den |-> pct.num]
         ELSE [class |-> "huge", num |-> price, den |-> 1]
    ELSE Infinity

Score(g, currentPerf, resMult, gameMult, cpuFactor) ==
    LET effectivePerf == effectivePerfOf(g, resMult, gameMult, cpuFactor)
        gain == gainOf(effectivePerf, currentPerf)
        estFpsGainPercent == estFpsGainPercentOf(gain, currentPerf)
    IN [gpu |-> g,
        effectivePerf |-> effectivePerf,
        estFpsGainPercent |-> estFpsGainPercent,
        costPerFpsPoint |-> costPerFpsPointOf(g.price, estFpsGainPercent)]

(***************************************************************************)
(* scored.sort((a, b) => a.costPerFpsPoint - b.costPerFpsPoint)  (225).    *)
(***************************************************************************)
\* the sign of a/b - c/d for positive b, d, by the Euclidean expansion, so
\* that no product leaves the integer range
RECURSIVE FracCmp(_, _, _, _)
FracCmp(a, b, c, d) ==
    LET q1 == a \div b
        q2 == c \div d
        r1 == a % b
        r2 == c % d
    IN IF q1 < q2 THEN -1
       ELSE IF q1 > q2 THEN 1
       ELSE IF r1 = 0 /\ r2 = 0 THEN 0
       ELSE IF r1 = 0 THEN -1
       ELSE IF r2 = 0 THEN 1
       ELSE FracCmp(d, r2, b, r1)

ClassRank(c) == CASE c = "finite" -> 0 [] c = "huge" -> 1 [] c = "inf" -> 2

\* x - y on costs: "neg", "zero", "pos", or "nan" for Infinity - Infinity
Minus(x, y) ==
    IF x.class = "inf" /\ y.class = "inf" THEN "nan"
    ELSE IF ClassRank(x.class) < ClassRank(y.class) THEN "neg"
    ELSE IF ClassRank(x.class) > ClassRank(y.class) THEN "pos"
    ELSE LET s == FracCmp(x.num, x.den, y.num, y.den)
         IN IF s < 0 THEN "neg" ELSE IF s > 0 THEN "pos" ELSE "zero"

\* a plausible slip: descending order
comparefn_descending(a, b) == Minus(b.costPerFpsPoint, a.costPerFpsPoint)

\* a plausible slip: a boolean-style comparator that never answers "equal"
comparefn_lessOrEqual(a, b) ==
    IF Minus(a.costPerFpsPoint, b.costPerFpsPoint) \in {"neg", "zero", "nan"}
    THEN "neg" ELSE "pos"

comparefn(a, b) == Minus(a.costPerFpsPoint, b.costPerFpsPoint)

\* Array.prototype.sort's SortCompare: a NaN from comparefn counts as +0
SortCompare(a, b) ==
    LET v == comparefn(a, b) IN IF v = "nan" THEN "zero" ELSE v

\* Array.prototype.sort is stable: x goes before the first element it is
\* strictly less than
InsertSorted(x, sorted) ==
    LET before == {i \in 1..Len(sorted) : SortCompare(x, sorted[i]) = "neg"}
        k == IF before = {} THEN Len(sorted) + 1
             ELSE CHOOSE i \in before : \A j \in before : i <= j
    IN SubSeq(sorted, 1, k - 1) \o <<x>> \o SubSeq(sorted, k, Len(sorted))

RECURSIVE SortFrom(_, _)
SortFrom(rest, sorted) ==
    IF rest = <<>> THEN sorted
    ELSE SortFrom(Tail(rest), InsertSorted(Head(rest), sorted))

sort(xs) == SortFrom(xs, <<>>)

(***************************************************************************)
(* The request bodies of specification Spec: every field drawn from a      *)
(* small set that reaches each branch of the handler, with all keys        *)
(* present or one key absent.                                              *)
(***************************************************************************)
MaxCores == 7

Fields == {"formFactor", "currentGpu", "vramGb", "budget", "cores", "resolution", "games"}

HasSets == {Fields} \cup { Fields \ {f} : f \in Fields }

CurrentGpuChoices ==
    { <<>>,
      <<"G", "T", "X", " ", "1", "0", "6", "0">>,
      <<"R", "T", "X", " ", "4", "0", "7", "0">>,
      <<"R", "T", "X", " ", "3", "0", "7", "0">>,
      <<"R", "a", "d", "e", "o", "n">> }

BudgetChoices == {0, 50, 299, 500, 600, 1299}

GamesChoices ==
    { <<>>,
      <<"v", "a", "l", "o", "r", "a", "n", "t">>,
      <<"C", "y", "b", "e", "r", "p", "u", "n", "k", " ", "2", "0", "7", "7", ",", " ",
        "V", "a", "l", "o", "r", "a", "n", "t">>,
      <<" ", "F", "o", "r", "t", "n", "i", "t", "e", " ", ";", "\n",
        "M", "i", "n", "e", "c", "r", "a", "f", "t">>,
      <<"c", "o", "n", "s", "t", "r", "u", "c", "t", "o", "r">> }

Choices(h, f, values, falsy) == IF f \in h THEN values ELSE {falsy}

\* the bodies with exactly the keys h
RequestsWith(h) ==
    { [kind |-> "json", has |-> h, formFactor |-> ff, currentGpu |-> gpu,
       vramGb |-> vram, budget |-> b, cores |-> c, resolution |-> res,
       games |-> gm] :
        ff \in Choices(h, "formFactor", {"desktop", "laptop"}, ""),
        gpu \in Choices(h, "currentGpu", CurrentGpuChoices, <<>>),
        vram \in Choices(h, "vramGb", {6, 16}, 0),
        b \in Choices(h, "budget", BudgetChoices, 0),
        c \in Choices(h, "cores", 0..MaxCores, 0),
        res \in Choices(h, "resolution", {"1080p", "1440p", "4K"}, ""),
        gm \in Choices(h, "games", GamesChoices, <<>>) }

(***************************************************************************)
(* buildAffiliateUrls (route.ts 117-171), with AFFILIATE_TAG unset.  Each  *)
(* retailer link is the product URL itself when the product's host is the  *)
(* retailer's, and a search on the retailer's site otherwise.              *)
(***************************************************************************)
HostIncludes(host, retailer) ==
    \/ retailer = "amazon." /\ host = "www.amazon.com"
    \/ retailer = "newegg." /\ host = "www.newegg.com"
    \/ retailer = "ebay." /\ host = "www.ebay.com"

buildAffiliateUrls(g) ==
    [amazon |-> IF HostIncludes(g.host, "amazon.") THEN "product" ELSE "search",
     newegg |-> IF HostIncludes(g.host, "newegg.") THEN "product" ELSE "search",
     ebay |-> IF HostIncludes(g.host, "ebay.") THEN "product" ELSE "search",
     canonical |-> g.productUrl]

(***************************************************************************)
(* The response's numbers.  JSON.stringify writes NaN and Infinity as null.*)
(***************************************************************************)
\* Math.round(best.estFpsGainPercent)
roundPercent(pct) ==
    IF pct.nan THEN [json |-> "null", v |-> 0]
    ELSE [json |-> "number", v |-> (2 * pct.num + pct.den) \div (2 * pct.den)]

\* Math.round(best.costPerFpsPoint * 100) / 100, in cents
roundCost(cost) ==
    IF cost.class = "inf" THEN [json |-> "null", v |-> 0]
    ELSE IF cost.class = "huge" THEN [json |-> "huge", v |-> 0]
    ELSE [json |-> "number", v |-> (200 * cost.num + cost.den) \div (2 * cost.den)]

(***************************************************************************)
(* POST (route.ts 173-241).  A request body is [kind, has, fields...]: has *)
(* is the set of keys present; an absent key carries its type's falsy      *)
(* value.  kind "malformed" is a body req.json() cannot parse.             *)
(***************************************************************************)
\* the test of line 176: !data.budget || !data.currentGpu || !data.formFactor || !data.resolution
MissingRequired(data) ==
    \/ "budget" \notin data.has \/ data.budget = 0
    \/ "currentGpu" \notin data.has \/ data.currentGpu = <<>>
    \/ "formFactor" \notin data.has \/ data.formFactor = ""
    \/ "resolution" \notin data.has \/ data.resolution = ""

\* the payload of lines 180-188; cores = 0 stands for undefined
PayloadOf(data) ==
    [has |-> {"formFactor", "currentGpu", "vramGb", "budget", "resolution", "games"}
                \cup (IF OrZero(data, "cores") # 0 THEN {"cores"} ELSE {}),
     formFactor |-> data.formFactor,
     currentGpu |-> data.currentGpu,
     vramGb |-> OrZero(data, "vramGb"),
     budget |-> data.budget,
     cores |-> OrZero(data, "cores"),
     resolution |-> data.resolution,
     games |-> IF "games" \in data.has THEN data.games ELSE <<>>]

\* a plausible slip: the budget test left out of the filter
IsCandidate_anyPrice(g, payload) ==
    ~(g.formFactor # "both" /\ g.formFactor # payload.formFactor)

\* the predicate of GPU_OPTIONS.filter (201-205)
IsCandidate(g, payload) ==
    /\ ~(g.price > payload.budget)
    /\ ~(g.formFactor # "both" /\ g.formFactor # payload.formFactor)

\* the locals of POST up to the filter
LocalsOf(data) ==
    LET payload == PayloadOf(data)
        gameList == parseGames(payload.games)
    IN [kind |-> "locals",
        payload |-> payload,
        currentPerf |-> estimateCurrentPerf(payload),
        resMult |-> resolutionMultiplier(payload.resolution),
        gameList |-> gameList,
        gameMultiplier |-> gameMultiplier(gameList),
        cpuFactor |-> cpuBottleneckFactor(payload.cores),
        candidates |-> SelectSeq(GPU_OPTIONS, LAMBDA g : IsCandidate(g, payload))]

ScoredOf(l) ==
    [i \in 1..Len(l.candidates) |->
        Score(l.candidates[i], l.currentPerf, l.resMult, l.gameMultiplier, l.cpuFactor)]

MissingMessage == "Missing required fields"

NoCandidatesMessage == "No GPUs found under your budget for this form factor."

Receive ==
    /\ pc = "idle"
    /\ \/ \E h \in HasSets : \E r \in RequestsWith(h) : req' = r
       \/ req' = [kind |-> "malformed"]
    /\ pc' = "received"
    /\ UNCHANGED <<resp, locals, arg, out>>

\* req.json() throws: the catch of line 238
PostUnparsable ==
    /\ pc = "received"
    /\ req.kind = "malformed"
    /\ resp' = [kind |-> "response", status |-> 500, keys |-> {"error"},
                error |-> "Unexpected token", recommendation |-> None]
    /\ locals' = None
    /\ pc' = "responded"
    /\ UNCHANGED <<req, arg, out>>

\* the early return of lines 176-178
PostMissingFields ==
    /\ pc = "received"
    /\ req.kind = "json"
    /\ MissingRequired(req)
    /\ resp' = [kind |-> "response", status |-> 400, keys |-> {"error"},
                error |-> MissingMessage, recommendation |-> None]
    /\ locals' = None
    /\ pc' = "responded"
    /\ UNCHANGED <<req, arg, out>>

\* the return of lines 207-209
PostNoCandidates ==
    /\ pc = "received"
    /\ req.kind = "json"
    /\ ~MissingRequired(req)
    /\ LET l == LocalsOf(req) IN
        /\ Len(l.candidates) = 0
        /\ locals' = [l EXCEPT !.kind = "filtered"]
    /\ resp' = [kind |-> "response", status |-> 200, keys |-> {"error"},
                error |-> NoCandidatesMessage, recommendation |-> None]
    /\ pc' = "responded"
    /\ UNCHANGED <<req, arg, out>>

\* the return of lines 211-237
PostRecommendation ==
    /\ pc = "received"
    /\ req.kind = "json"
    /\ ~MissingRequired(req)
    /\ LET l == LocalsOf(req)
           scored == sort(ScoredOf(l))
           best == scored[1]
       IN /\ Len(l.candidates) # 0
          /\ locals' = [kind |-> "scored",
                        payload |-> l.payload,
                        currentPerf |-> l.currentPerf,
                        resMult |-> l.resMult,
                        gameList |-> l.gameList,
                        gameMultiplier |-> l.gameMultiplier,
                        cpuFactor |-> l.cpuFactor,
                        candidates |-> l.candidates,
                        scored |-> scored,
                        best |-> best]
          /\ resp' = [kind |-> "response", status |-> 200, keys |-> {"recommendation"},
                      error |-> "",
                      recommendation |->
                        [kind |-> "recommendation",
                         name |-> best.gpu.name,
                         price |-> best.gpu.price,
                         estFpsGainPercent |-> roundPercent(best.estFpsGainPercent),
                         costPerFpsPoint |-> roundCost(best.costPerFpsPoint),
                         affiliateUrls |-> buildAffiliateUrls(best.gpu)]]
    /\ pc' = "responded"
    /\ UNCHANGED <<req, arg, out>>

POST == PostUnparsable \/ PostMissingFields \/ PostNoCandidates \/ PostRecommendation

\* the handler keeps nothing between requests
Finish ==
    /\ pc = "responded"
    /\ pc' = "idle"
    /\ req' = None /\ resp' = None /\ locals' = None
    /\ UNCHANGED <<arg, out>>

Init ==
    /\ pc = "idle"
    /\ req = None /\ resp = None /\ locals = None
    /\ arg = None /\ out = None

Next == Receive \/ POST \/ Finish

Spec == Init /\ [][Next]_vars

(***************************************************************************)
(* Properties.                                                             *)
(***************************************************************************)
RequiredFields == {"budget", "currentGpu", "formFactor", "resolution"}

\* the handler has answered a parsed body
Answered == pc = "responded" /\ req.kind = "json"

\* the handler has answered a body that passed the required-field test of line 176
AnsweredValid == Answered /\ ~MissingRequired(req)

\* the catalog positions the filter of the specification keeps
Survivors(r) ==
    { i \in 1..Len(GPU_OPTIONS) :
        /\ GPU_OPTIONS[i].price <= r.budget
        /\ (GPU_OPTIONS[i].formFactor = "both" \/ GPU_OPTIONS[i].formFactor = r.formFactor) }

CatalogIndex(g) == CHOOSE i \in 1..Len(GPU_OPTIONS) : GPU_OPTIONS[i].id = g.id

\* x <= y on costs; Infinity <= Infinity
CostLeq(x, y) == (x.class = "inf" /\ y.class = "inf") \/ Minus(x, y) \in {"neg", "zero"}

CostEq(x, y) == (x.class = "inf" /\ y.class = "inf") \/ Minus(x, y) = "zero"

Recommended == resp.keys = {"recommendation"}

\* C1: a valid request with at least one surviving catalog entry is answered
\* with a recommendation; the recommended GPU is a catalog entry within budget
\* and of the requested form factor (or 'both'), the scored candidates are
\* exactly the survivors, and no scored candidate has a smaller unrounded
\* costPerFpsPoint than the recommended one.
C1_RecommendsCheapestPerPoint ==
    (AnsweredValid /\ Survivors(req) # {}) =>
        /\ resp.status = 200
        /\ Recommended
        /\ locals.kind = "scored"
        /\ CatalogIndex(locals.best.gpu) \in Survivors(req)
        /\ resp.recommendation.name = locals.best.gpu.name
        /\ resp.recommendation.price = locals.best.gpu.price
        /\ resp.recommendation.price <= req.budget
        /\ locals.best.gpu.formFactor \in {"both", req.formFactor}
        /\ {CatalogIndex(locals.scored[k].gpu) : k \in 1..Len(locals.scored)} = Survivors(req)
        /\ \A k \in 1..Len(locals.scored) :
              CostLeq(locals.best.costPerFpsPoint, locals.scored[k].costPerFpsPoint)

\* C1 witness: several survivors with different finite costs, and the
\* recommended one is not the first of the catalog
C1_Witness ==
    /\ AnsweredValid
    /\ Cardinality(Survivors(req)) >= 2
    /\ Recommended
    /\ CatalogIndex(locals.best.gpu) # 1
    /\ \A k \in 1..Len(locals.scored) : locals.scored[k].costPerFpsPoint.class = "finite"
    /\ \E k \in 1..Len(locals.scored) :
          ~CostLeq(locals.scored[k].costPerFpsPoint, locals.best.costPerFpsPoint)

\* C2 as stated: a recommended candidate without positive gain is the sole
\* survivor; with two or more survivors the recommended one has
\* estFpsGainPercent > 0.
C2_ZeroGainOnlyIfSole ==
    (AnsweredValid /\ Recommended /\ Len(locals.candidates) >= 2) =>
        IsPositive(locals.best.estFpsGainPercent)

\* C2 amended: a candidate without positive gain is recommended only if no
\* surviving candidate has a positive gain; when some surviving candidate has
\* estFpsGainPercent > 0, so has the recommended one.
C2_ZeroGainOnlyIfAllZero ==
    (AnsweredValid /\ Recommended) =>
        ((\E k \in 1..Len(locals.scored) : IsPositive(locals.scored[k].estFpsGainPercent))
            => IsPositive(locals.best.estFpsGainPercent))

\* C2 witness: a zero-gain candidate survives next to one with a gain, and
\* the recommendation has a gain
C2_Witness ==
    /\ AnsweredValid
    /\ Recommended
    /\ \E k \in 1..Len(locals.scored) :
          /\ ~locals.scored[k].estFpsGainPercent.nan
          /\ ~IsPositive(locals.scored[k].estFpsGainPercent)
          /\ locals.scored[k].costPerFpsPoint.class = "inf"
    /\ IsPositive(locals.best.estFpsGainPercent)

\* Scenario A of the specification: cores absent
ScenarioA ==
    [kind |-> "json",
     has |-> Fields \ {"cores"},
     formFactor |-> "desktop",
     currentGpu |-> <<"G", "T", "X", " ", "1", "0", "6", "0">>,
     vramGb |-> 6,
     budget |-> 600,
     cores |-> 0,
     resolution |-> "1080p",
     games |-> <<"v", "a", "l", "o", "r", "a", "n", "t">>]

ScenarioAInputs ==
    /\ locals.kind = "scored"
    /\ locals.currentPerf = 55
    /\ locals.resMult = 5
    /\ locals.gameMultiplier = Num(12)
    /\ locals.cpuFactor = 25
    /\ [k \in 1..Len(locals.candidates) |-> locals.candidates[k].id]
          = <<"rtx-4060", "rtx-4070", "rx-7800-xt">>

\* C3 as stated: Scenario A has currentPerf 55, resMult 1, gameMultiplier 0.6,
\* cpuFactor 1, the three desktop GPUs as candidates, and recommends the
\* RTX 4060 (price 299).
C3_ScenarioA_Rtx4060 ==
    (Answered /\ req = ScenarioA) =>
        /\ ScenarioAInputs
        /\ Recommended
        /\ resp.recommendation.name = "NVIDIA GeForce RTX 4060"
        /\ resp.recommendation.price = 299

\* C3 amended: Scenario A has currentPerf 55, resMult 1, gameMultiplier 0.6,
\* cpuFactor 1, the three desktop GPUs as candidates, and recommends the
\* RTX 4070 (price 549): gains 5, 32 and 29 points make the costs per point
\* 32.89, 9.44 and 9.46.
C3_ScenarioA_Rtx4070 ==
    (Answered /\ req = ScenarioA) =>
        /\ ScenarioAInputs
        /\ Recommended
        /\ resp.status = 200
        /\ resp.recommendation.name = "NVIDIA GeForce RTX 4070"
        /\ resp.recommendation.price = 549
        /\ resp.recommendation.costPerFpsPoint = [json |-> "number", v |-> 944]
        /\ resp.recommendation.estFpsGainPercent = [json |-> "number", v |-> 58]

\* C3 witness: Scenario A has been answered
C3_Witness == Answered /\ req = ScenarioA /\ Recommended

\* the budget is below the price of every catalog entry of the form factor
BelowEveryEligiblePrice(r) ==
    \A i \in 1..Len(GPU_OPTIONS) :
        (GPU_OPTIONS[i].formFactor = "both" \/ GPU_OPTIONS[i].formFactor = r.formFactor)
            => r.budget < GPU_OPTIONS[i].price

\* C4: a valid request whose budget is below every eligible price is answered
\* with status 200, the no-candidates message and no recommendation key; and
\* an answer with status 200 and no error is given only when a catalog entry
\* survived the filter.
C4_NoCandidatesOutcome ==
    /\ (AnsweredValid /\ BelowEveryEligiblePrice(req)) =>
          /\ resp.status = 200
          /\ resp.keys = {"error"}
          /\ resp.error = NoCandidatesMessage
    /\ (Answered /\ resp.status = 200 /\ "error" \notin resp.keys) =>
          /\ Survivors(req) # {}
          /\ Recommended

\* C4 witness: a desktop request with budget 50 answered with the message
C4_Witness ==
    /\ AnsweredValid
    /\ req.budget = 50
    /\ req.formFactor = "desktop"
    /\ resp.status = 200
    /\ resp.error = NoCandidatesMessage

\* x >= y on multipliers; false when either is NaN
MultGeq(x, y) == ~x.nan /\ ~y.nan /\ x.v >= y.v

C6_ScenarioC_VramFallback ==
    (/\ Answered
     /\ Fields \subseteq req.has
     /\ req.currentGpu = <<>>
     /\ req.vramGb = 16
     /\ req.budget # 0) =>
        /\ locals.kind # "none"
        /\ locals.currentPerf = 100

\* C7: the answer is 400 "Missing required fields" exactly when a required
\* key is absent from the body, and then nothing has been computed.
C7_BadRequestIffAbsent ==
    Answered =>
        /\ (resp.status = 400 /\ resp.error = MissingMessage)
              <=> (\E f \in RequiredFields : f \notin req.has)
        /\ resp.status = 400 => locals.kind = "none"

ReferenceRules ==
    << [subs |-> {S1050, Srx570}, score |-> 40],
       [subs |-> {S1060, S1660, Srx580}, score |-> 55],
       [subs |-> {S2060, S2070, Srx5600}, score |-> 75],
       [subs |-> {S3060, S6700}, score |-> 90],
       [subs |-> {S3070, S6800}, score |-> 110],
       [subs |-> {S4060}, score |-> 100],
       [subs |-> {S4070}, score |-> 145] >>

ReferenceTier(v) ==
    CASE v >= 12 -> 100
      [] v >= 8 /\ v < 12 -> 70
      [] v >= 6 /\ v < 8 -> 55
      [] v < 6 -> 35

RECURSIVE FirstMatch(_, _, _)
FirstMatch(name, rules, fallback) ==
    IF rules = <<>> THEN fallback
    ELSE IF \E sub \in Head(rules).subs : includes(name, sub) THEN Head(rules).score
    ELSE FirstMatch(name, Tail(rules), fallback)

\* C8: estimateCurrentPerf is the ordered rule list, first match winning, on
\* the lowercased name, and the VRAM tier when the name is empty or matches
\* no rule.
C8_FirstMatchWins ==
    (pc = "return" /\ out.kind = "perf") =>
        out.value = FirstMatch(toLowerCase(arg.currentGpu), ReferenceRules,
                               ReferenceTier(OrZero(arg, "vramGb")))

\* C8 witness: a name holding "4060" before "1060" scores 55
C8_Witness ==
    /\ pc = "return" /\ out.kind = "perf"
    /\ arg.currentGpu = S4060 \o S1060
    /\ out.value = 55

\* effectivePerf <= currentPerf
NoFaster(sc, currentPerf) ==
    /\ ~sc.effectivePerf.nan
    /\ \/ sc.effectivePerf.n < currentPerf * Scale
       \/ sc.effectivePerf.n = currentPerf * Scale /\ ~sc.effectivePerf.above

\* C9: every scored candidate of a request with a resolution in 1080p, 1440p,
\* 4K has estFpsGainPercent >= 0; it is 0 with costPerFpsPoint = +infinity
\* exactly when effectivePerf <= currentPerf, and otherwise costPerFpsPoint
\* is the finite price / estFpsGainPercent.
C9_GainNeverNegative ==
    (Answered /\ locals.kind = "scored" /\ req.resolution \in {"1080p", "1440p", "4K"}) =>
        \A k \in 1..Len(locals.scored) :
            LET sc == locals.scored[k]
                zero == ~sc.estFpsGainPercent.nan /\ ~IsPositive(sc.estFpsGainPercent)
            IN /\ ~sc.estFpsGainPercent.nan
               /\ sc.estFpsGainPercent.num >= 0
               /\ (zero /\ sc.costPerFpsPoint.class = "inf") <=> NoFaster(sc, locals.currentPerf)
               /\ ~NoFaster(sc, locals.currentPerf) =>
                     /\ sc.costPerFpsPoint.class # "inf"
                     /\ sc.costPerFpsPoint = costPerFpsPointOf(sc.gpu.price, sc.estFpsGainPercent)

\* C10: among the scored candidates whose unrounded costPerFpsPoint equals
\* the recommended one's (all +infinity included), the recommended one
\* comes first in GPU_OPTIONS.
C10_TieFirstInCatalog ==
    (AnsweredValid /\ Recommended) =>
        \A k \in 1..Len(locals.scored) :
            CostEq(locals.scored[k].costPerFpsPoint, locals.best.costPerFpsPoint)
                => CatalogIndex(locals.best.gpu) <= CatalogIndex(locals.scored[k].gpu)

\* C10 witness: three candidates tie at +infinity and the first of the
\* catalog is recommended
C10_Witness ==
    /\ AnsweredValid
    /\ Recommended
    /\ Len(locals.scored) = 3
    /\ \A k \in 1..Len(locals.scored) : locals.scored[k].costPerFpsPoint.class = "inf"
    /\ locals.best.gpu.id = "rtx-4060"

====
